---- MODULE Spec2Model ----
(***************************************************************************)
(* Media management of we3vision_backend: the /api/media router            *)
(* (src/routes/media.js), the multer upload middleware                     *)
(* (src/middleware/upload.js) and the application error middleware         *)
(* (src/server.js).                                                        *)
(*                                                                         *)
(* Strings are sequences of one-character strings, so that the regular     *)
(* expressions, path.extname and path.join of the code are computed and    *)
(* not assumed.                                                            *)
(***************************************************************************)
EXTENDS Integers, Sequences, FiniteSets, TLC

\* ------------------------------------------------------------------ bounds

\* Date.now() takes the values 0..MaxClock, never decreasing.
MaxClock == 1
\* Math.round(Math.random() * 1E9) takes the values 0..MaxRand.
MaxRand == 0
\* Requests received over a run.
MaxRequests == 3

\* The request slots: the requests being served at one time.
Req == {1, 2}

\* ----------------------------------------------------------------- strings

LowerLetters ==
    {"a","b","c","d","e","f","g","h","i","j","k","l","m",
     "n","o","p","q","r","s","t","u","v","w","x","y","z"}

UpperLetters ==
    {"A","B","C","D","E","F","G","H","I","J","K","L","M",
     "N","O","P","Q","R","S","T","U","V","W","X","Y","Z"}

DigitChars == <<"0","1","2","3","4","5","6","7","8","9">>

LowerSeq ==
    <<"a","b","c","d","e","f","g","h","i","j","k","l","m",
      "n","o","p","q","r","s","t","u","v","w","x","y","z">>

UpperSeq ==
    <<"A","B","C","D","E","F","G","H","I","J","K","L","M",
      "N","O","P","Q","R","S","T","U","V","W","X","Y","Z">>

\* One character, lower-cased (the i flag of a regular expression).
ToLowerChar(c) ==
    IF c \in UpperLetters
    THEN LowerSeq[CHOOSE i \in 1..26 : UpperSeq[i] = c]
    ELSE c

ToLower(s) == [i \in 1..Len(s) |-> ToLowerChar(s[i])]

EndsWith(s, suffix) ==
    /\ Len(s) >= Len(suffix)
    /\ SubSeq(s, Len(s) - Len(suffix) + 1, Len(s)) = suffix

\* String.prototype.startsWith
StartsWith(s, prefix) ==
    /\ Len(s) >= Len(prefix)
    /\ SubSeq(s, 1, Len(prefix)) = prefix

\* The decimal digits of a natural number (number to string conversion).
RECURSIVE Decimal(_)
Decimal(n) ==
    IF n < 10 THEN <<DigitChars[n + 1]>>
    ELSE Decimal(n \div 10) \o <<DigitChars[(n % 10) + 1]>>

\* The positions of character c in s.
Positions(s, c) == {i \in 1..Len(s) : s[i] = c}

Max(S) == CHOOSE x \in S : \A y \in S : y <= x

\* path.basename: what follows the last separator.
BaseName(p) ==
    IF Positions(p, "/") = {} THEN p
    ELSE SubSeq(p, Max(Positions(p, "/")) + 1, Len(p))

\* path.extname: from the last dot of the basename to its end; empty when
\* there is no dot, when the only dot starts the basename, and for "..".
ExtName(p) ==
    LET base == BaseName(p)
        dots == Positions(base, ".")
    IN  IF dots = {} \/ Max(dots) = 1 \/ base = <<".", ".">>
        THEN <<>>
        ELSE SubSeq(base, Max(dots), Len(base))

\* The segments of a path between its separators.
RECURSIVE Split(_)
Split(p) ==
    IF Positions(p, "/") = {} THEN <<p>>
    ELSE LET i == Max(Positions(p, "/"))
         IN  Split(SubSeq(p, 1, i - 1)) \o <<SubSeq(p, i + 1, Len(p))>>

\* path.normalize on segments: "" and "." are dropped, ".." drops the
\* segment before it.
RECURSIVE Normalize(_, _)
Normalize(done, segs) ==
    IF segs = <<>> THEN done
    ELSE LET s == Head(segs)
         IN  IF s = <<>> \/ s = <<".">> THEN Normalize(done, Tail(segs))
             ELSE IF s = <<".", ".">>
             THEN Normalize(IF done = <<>> THEN done
                            ELSE SubSeq(done, 1, Len(done) - 1), Tail(segs))
             ELSE Normalize(Append(done, s), Tail(segs))

\* path.join(dir, name) for an absolute, normalized dir given by its segments.
PathJoin(dir, name) == Normalize(dir, Split(name))

\* An absolute path as a string: "/" before each segment.
RECURSIVE JoinPath(_)
JoinPath(segs) ==
    IF segs = <<>> THEN <<>>
    ELSE <<"/">> \o Head(segs) \o JoinPath(Tail(segs))

\* String.prototype.includes
Contains(s, sub) ==
    \E i \in 1..(Len(s) - Len(sub) + 1) :
        SubSeq(s, i, i + Len(sub) - 1) = sub


\* --------------------------------------------------------- program constants

\* upload.array('images', 5): the field name and its maxCount.
ImagesField == <<"i","m","a","g","e","s">>
MaxCount == 5

\* limits.fileSize
FileSizeLimit == 5 * 1024 * 1024

\* The directory of routes/media.js and of middleware/upload.js, and
\* UPLOADS_DIR == path.join(__dirname, '../uploads'), as segments.
DirName == << <<"a","p","p">>, <<"r","o","u","t","e","s">> >>
UPLOADS_DIR == PathJoin(DirName, <<".",".","/","u","p","l","o","a","d","s">>)

\* The longest file name the filesystem of the uploads directory takes.
NAME_MAX == 255

\* ------------------------------------------------------------------ inputs

ImagePng == <<"i","m","a","g","e","/","p","n","g">>
ImageBmp == <<"i","m","a","g","e","/","b","m","p">>
TextPlain == <<"t","e","x","t","/","p","l","a","i","n">>

PngFile ==
    [fieldname |-> ImagesField, originalname |-> <<"a",".","p","n","g">>,
     mimetype |-> ImagePng, size |-> 1024]
BmpFile ==
    [fieldname |-> ImagesField, originalname |-> <<"a",".","b","m","p">>,
     mimetype |-> ImageBmp, size |-> 1024]
TxtFile ==
    [fieldname |-> ImagesField, originalname |-> <<"n",".","t","x","t">>,
     mimetype |-> TextPlain, size |-> 1024]
BigFile ==
    [fieldname |-> ImagesField, originalname |-> <<"a",".","p","n","g">>,
     mimetype |-> ImagePng, size |-> 6 * 1024 * 1024]

\* An image whose original name has an extension of NAME_MAX characters
\* that begins with "CORS".
LongExtension ==
    <<".", "C", "O", "R", "S">> \o [i \in 1..(NAME_MAX - 5) |-> "x"]
CorsFile ==
    [fieldname |-> ImagesField, originalname |-> <<"a">> \o LongExtension,
     mimetype |-> ImagePng, size |-> 1024]

\* The multipart bodies a client sends: the file parts in order.
Batches ==
    { <<>>,
      <<CorsFile>>,
      <<PngFile>>,
      <<BmpFile>>,
      <<PngFile, TxtFile>>,
      <<PngFile, BigFile>>,
      <<PngFile, PngFile, PngFile, PngFile, PngFile, PngFile>> }

Principals == {"none", "user", "admin"}

\* ----------------------------------------------------------------- storage

\* storage.filename: fieldname-Date.now()-random, with the extension of the
\* client's original name.
GeneratedName(file, t, rnd) ==
    file.fieldname \o <<"-">> \o Decimal(t) \o <<"-">> \o Decimal(rnd)
        \o ExtName(file.originalname)

\* The :filename parameters a client sends to delete besides the names of
\* files it has seen stored.
OtherNames ==
    { <<".", ".">>,
      <<".",".","/","e","t","c","/","p","a","s","s","w","d">>,
      <<"g","h","o","s","t",".","p","n","g">> }

\* ------------------------------------------------------------------- state

VARIABLES
    storage,    \* the uploads directory: filename -> the file stored under it
    now,        \* the value Date.now() returned last
    started,    \* requests received so far
    req,        \* per slot: the request being served
    pc,         \* per slot: the middleware or step the request is at
    idx,        \* per slot: multer's position in the parts / in uploadedFiles
    uploaded,   \* per slot: multer's uploadedFiles (req.files)
    err,        \* per slot: the error passed to next(err)
    resp,       \* per slot: the response sent
    fsCalls,    \* per slot: the filesystem calls the request has made
    returned,   \* the filenames returned by 201 responses, in order
    deleted,    \* some delete request has removed a file
    raced,      \* per slot: a delete arrived while another delete of the
                \* same stored file was being served
    missing,    \* per slot: a delete's target was not stored at its unlink
    logged      \* per slot: the request was written to console.error

vars ==
    <<storage, now, started, req, pc, idx, uploaded, err, resp, fsCalls,
      returned, deleted, raced, missing, logged>>

NoRequest ==
    [id |-> 0, kind |-> "none", principal |-> "none", files |-> <<>>,
     filename |-> <<>>]
\* An error: message is its fixed text, path the path the message of a
\* filesystem error quotes after the text (empty for the other errors).
NoError == [multer |-> FALSE, code |-> "", message |-> "", path |-> <<>>]
NoResponse == [status |-> 0, message |-> "", data |-> <<>>]

MulterError(code, message) ==
    [multer |-> TRUE, code |-> code, message |-> message, path |-> <<>>]
PlainError(message) ==
    [multer |-> FALSE, code |-> "", message |-> message, path |-> <<>>]
\* The error of a failed fs call on path: "<text> '<path>'".
FsError(code, message, path) ==
    [multer |-> FALSE, code |-> code, message |-> message, path |-> path]

Init ==
    /\ storage = [n \in {} |-> 0]
    /\ now = 0
    /\ started = 0
    /\ req = [r \in Req |-> NoRequest]
    /\ pc = [r \in Req |-> "idle"]
    /\ idx = [r \in Req |-> 1]
    /\ uploaded = [r \in Req |-> <<>>]
    /\ err = [r \in Req |-> NoError]
    /\ resp = [r \in Req |-> NoResponse]
    /\ fsCalls = [r \in Req |-> {}]
    /\ returned = <<>>
    /\ deleted = FALSE
    /\ raced = [r \in Req |-> FALSE]
    /\ missing = [r \in Req |-> FALSE]
    /\ logged = [r \in Req |-> FALSE]

\* -------------------------------------------------------------- filesystem

\* The names of the entries of the uploads directory.
Stored == DOMAIN storage

\* A path that names an entry directly inside the uploads directory.
InsideUploads(path) ==
    /\ Len(path) = Len(UPLOADS_DIR) + 1
    /\ SubSeq(path, 1, Len(UPLOADS_DIR)) = UPLOADS_DIR

\* A path that names the uploads directory or one of its ancestors.
IsDirectory(path) ==
    /\ Len(path) <= Len(UPLOADS_DIR)
    /\ SubSeq(UPLOADS_DIR, 1, Len(path)) = path

\* The error codes unlink(2) can give for path in directory dir: none
\* ("ok") for a stored file, EISDIR (Linux) or EPERM (POSIX) for a directory,
\* ENOENT for a missing entry.
UnlinkResults(dir, path) ==
    IF InsideUploads(path) /\ path[Len(path)] \in DOMAIN dir THEN {"ok"}
    ELSE IF IsDirectory(path) THEN {"EISDIR", "EPERM"}
    ELSE {"ENOENT"}

\* An unlink that empties the directory of the entry it removes.
AfterUnlinkAll(dir, path) ==
    IF InsideUploads(path) /\ path[Len(path)] \in DOMAIN dir
    THEN [n \in {} |-> dir[n]]
    ELSE dir

\* The directory after unlink(path).
AfterUnlink(dir, path) ==
    IF InsideUploads(path) /\ path[Len(path)] \in DOMAIN dir
    THEN [n \in (DOMAIN dir) \ {path[Len(path)]} |-> dir[n]]
    ELSE dir

\* The directory after a file is written under name (fs.createWriteStream
\* opens with flag 'w': an existing file of that name is replaced).
AfterWrite(dir, name, content) ==
    [n \in (DOMAIN dir) \cup {name} |-> IF n = name THEN content ELSE dir[n]]


\* ------------------------------------------------------------------ routes

\* Routes whose upload decodes the body before the caller is checked.
ChainUploadFirst(kind) ==
    CASE kind = "list" -> <<"protect", "authorize", "listHandler">>
      [] kind = "upload" ->
            <<"uploadMultiple", "protect", "authorize", "postHandler">>
      [] kind = "delete" -> <<"protect", "authorize", "deleteHandler">>

\* The middleware of each route, in order (an error handler such as
\* handleUploadError is entered only through next(err)).
Chain(kind) ==
    CASE kind = "list" -> <<"protect", "authorize", "listHandler">>
      [] kind = "upload" ->
            <<"protect", "authorize", "uploadMultiple", "postHandler">>
      [] kind = "delete" -> <<"protect", "authorize", "deleteHandler">>

\* next(): the middleware after stage in the route.
NextStage(kind, stage) ==
    LET c == Chain(kind)
        i == CHOOSE j \in 1..Len(c) : c[j] = stage
    IN  c[i + 1]

Respond(r, status, message, data) ==
    /\ resp' = [resp EXCEPT ![r] =
                  [status |-> status, message |-> message, data |-> data]]
    /\ pc' = [pc EXCEPT ![r] = "done"]

\* The filenames a client has seen: stored now, or returned by an upload.
KnownNames == Stored \cup {returned[i] : i \in 1..Len(returned)}

Arrive(r, kind, who, files, filename) ==
    /\ req' = [req EXCEPT ![r] =
                 [id |-> started + 1, kind |-> kind, principal |-> who,
                  files |-> files, filename |-> filename]]
    /\ pc' = [pc EXCEPT ![r] = Head(Chain(kind))]
    /\ raced' = [raced EXCEPT ![r] =
                   /\ kind = "delete"
                   /\ filename \in Stored
                   /\ \E q \in Req \ {r} :
                        /\ pc[q] \notin {"idle", "done"}
                        /\ req[q].kind = "delete"
                        /\ req[q].filename = filename]
    /\ missing' = [missing EXCEPT ![r] = FALSE]
    /\ logged' = [logged EXCEPT ![r] = FALSE]

\* A request arrives and enters its route.
NewRequest(r) ==
    /\ pc[r] \in {"idle", "done"}
    /\ started < MaxRequests
    /\ \/ \E who \in Principals : Arrive(r, "list", who, <<>>, <<>>)
       \/ \E files \in Batches : Arrive(r, "upload", "admin", files, <<>>)
       \/ \E who \in Principals \ {"admin"} :
            Arrive(r, "upload", who, <<PngFile>>, <<>>)
       \/ \E filename \in KnownNames \cup OtherNames :
            Arrive(r, "delete", "admin", <<>>, filename)
       \/ \E who \in Principals \ {"admin"}, filename \in Stored :
            Arrive(r, "delete", who, <<>>, filename)
    /\ started' = started + 1
    /\ idx' = [idx EXCEPT ![r] = 1]
    /\ uploaded' = [uploaded EXCEPT ![r] = <<>>]
    /\ err' = [err EXCEPT ![r] = NoError]
    /\ resp' = [resp EXCEPT ![r] = NoResponse]
    /\ fsCalls' = [fsCalls EXCEPT ![r] = {}]
    /\ UNCHANGED <<storage, now, returned, deleted>>

\* protect: an unauthenticated caller is refused.
Protect(r) ==
    /\ pc[r] = "protect"
    /\ IF req[r].principal = "none"
       THEN Respond(r, 401, "Not authorized", <<>>)
       ELSE /\ pc' = [pc EXCEPT ![r] = NextStage(req[r].kind, "protect")]
            /\ UNCHANGED resp
    /\ UNCHANGED <<storage, now, started, req, idx, uploaded, err, fsCalls,
                   returned, deleted, raced, missing, logged>>

\* authorize('admin'): a caller whose role is not admin is refused.
Authorize(r) ==
    /\ pc[r] = "authorize"
    /\ IF req[r].principal # "admin"
       THEN Respond(r, 403, "Forbidden", <<>>)
       ELSE /\ pc' = [pc EXCEPT ![r] = NextStage(req[r].kind, "authorize")]
            /\ UNCHANGED resp
    /\ UNCHANGED <<storage, now, started, req, idx, uploaded, err, fsCalls,
                   returned, deleted, raced, missing, logged>>

\* ------------------------------------------------------------------- list

\* The filter of the listing: /\.(png|jpe?g|gif|webp|svg)$/i
ImageExtensions ==
    { <<".","p","n","g">>, <<".","j","p","g">>, <<".","j","p","e","g">>,
      <<".","g","i","f">>, <<".","w","e","b","p">>, <<".","s","v","g">> }

IsListed(f) == \E e \in ImageExtensions : EndsWith(ToLower(f), e)

\* The filenames of the listing of directory dir.
ListImages(dir) == {f \in DOMAIN dir : IsListed(f)}

\* GET /: readdir, filter, respond.
ListHandler(r) ==
    /\ pc[r] = "listHandler"
    /\ fsCalls' = [fsCalls EXCEPT ![r] = @ \cup {<<"readdir", UPLOADS_DIR>>}]
    /\ Respond(r, 200, "success", ListImages(storage))
    /\ UNCHANGED <<storage, now, started, req, idx, uploaded, err, returned,
                   deleted, raced, missing,
                   logged>>


\* ------------------------------------------------------------------ upload

\* A fileFilter that accepts every file.
FileFilterAcceptAll(file) == TRUE

\* fileFilter: the declared content type starts with 'image/'.
FileFilter(file) == StartsWith(file.mimetype, <<"i","m","a","g","e","/">>)

\* multer's count of the files the field may still take, before part i.
FilesLeft(i) == MaxCount - (i - 1)

\* The error multer raises for part i of the body before storing it, or
\* NoError: a file of another field or beyond maxCount is unexpected, then
\* the fileFilter decides.
PartError(file, i) ==
    IF file.fieldname # ImagesField \/ FilesLeft(i) <= 0
    THEN MulterError("LIMIT_UNEXPECTED_FILE", "Unexpected field")
    ELSE IF ~FileFilter(file)
    THEN PlainError("Not an image! Please upload an image.")
    ELSE NoError

\* The file stored for a part: the stream is cut at limits.fileSize.
StoredFile(r, file, i) ==
    [owner |-> req[r].id, part |-> i,
     size |-> IF file.size > FileSizeLimit THEN FileSizeLimit ELSE file.size]

\* multer aborts with error e: the files it has stored are removed before
\* the error is passed on.
Abort(r, e, files) ==
    /\ err' = [err EXCEPT ![r] = e]
    /\ idx' = [idx EXCEPT ![r] = 1]
    /\ pc' = [pc EXCEPT ![r] =
                IF files = <<>> THEN "handleUploadError" ELSE "removeUploaded"]

\* The filesystem refuses to create a file whose name is longer than
\* NAME_MAX: the write stream's error aborts the upload.
OpenFails(r, name) ==
    /\ Abort(r, FsError("ENAMETOOLONG", "ENAMETOOLONG: name too long, open",
                        Append(UPLOADS_DIR, name)),
             uploaded[r])
    /\ fsCalls' = [fsCalls EXCEPT ![r] =
          @ \cup {<<"open", Append(UPLOADS_DIR, name)>>}]
    /\ UNCHANGED <<storage, uploaded>>

\* uploadMultiple, one file part: refused, or stored under a generated name,
\* or failing to be stored.
MulterPart(r) ==
    /\ pc[r] = "uploadMultiple"
    /\ idx[r] <= Len(req[r].files)
    /\ LET file == req[r].files[idx[r]]
           e == PartError(file, idx[r])
       IN  IF e # NoError
           THEN /\ Abort(r, e, uploaded[r])
                /\ UNCHANGED <<storage, now, uploaded, fsCalls>>
           ELSE \E t \in now..MaxClock, rnd \in 0..MaxRand :
                  LET name == GeneratedName(file, t, rnd) IN
                  /\ now' = t
                  /\ IF Len(name) > NAME_MAX
                     THEN OpenFails(r, name)
                     ELSE
                       /\ storage' =
                            AfterWrite(storage, name,
                                       StoredFile(r, file, idx[r]))
                       /\ uploaded' = [uploaded EXCEPT ![r] = Append(@, name)]
                       /\ fsCalls' = [fsCalls EXCEPT ![r] =
                             @ \cup {<<"write", Append(UPLOADS_DIR, name)>>}]
                       /\ IF file.size > FileSizeLimit
                          THEN Abort(r, MulterError("LIMIT_FILE_SIZE",
                                                    "File too large"),
                                     uploaded'[r])
                          ELSE /\ idx' = [idx EXCEPT ![r] = @ + 1]
                               /\ UNCHANGED <<err, pc>>
    /\ UNCHANGED <<started, req, resp, returned, deleted, raced, missing,
                   logged>>

\* uploadMultiple, the end of the body: next().
MulterFinish(r) ==
    /\ pc[r] = "uploadMultiple"
    /\ idx[r] > Len(req[r].files)
    /\ pc' = [pc EXCEPT ![r] = NextStage(req[r].kind, "uploadMultiple")]
    /\ UNCHANGED <<storage, now, started, req, idx, uploaded, err, resp,
                   fsCalls, returned, deleted, raced, missing,
                   logged>>

\* multer removes one of the files it stored (errors of unlink are kept
\* aside, not raised); after the last one the error is passed on.
RemoveUploaded(r) ==
    /\ pc[r] = "removeUploaded"
    /\ idx[r] <= Len(uploaded[r])
    /\ LET path == Append(UPLOADS_DIR, uploaded[r][idx[r]]) IN
       /\ storage' = AfterUnlink(storage, path)
       /\ fsCalls' = [fsCalls EXCEPT ![r] = @ \cup {<<"unlink", path>>}]
    /\ idx' = [idx EXCEPT ![r] = @ + 1]
    /\ pc' = [pc EXCEPT ![r] =
                IF idx[r] = Len(uploaded[r]) THEN "handleUploadError" ELSE @]
    /\ UNCHANGED <<now, started, req, uploaded, err, resp, returned, deleted,
                   raced, missing,
                   logged>>

\* A handleUploadError without the LIMIT_FILE_SIZE case.
UploadErrorResponseNoSize(e) ==
    IF e.multer /\ e.code = "LIMIT_FILE_COUNT"
    THEN [status |-> 400, message |-> "Too many files. Maximum is 5 files.",
          data |-> <<>>]
    ELSE IF e.message = "Not an image! Please upload an image."
    THEN [status |-> 400, message |-> e.message, data |-> <<>>]
    ELSE NoResponse

\* handleUploadError: the response for error e, or NoResponse for next(err).
UploadErrorResponse(e) ==
    IF e.multer /\ e.code = "LIMIT_FILE_SIZE"
    THEN [status |-> 400, message |-> "File too large. Maximum size is 5MB.",
          data |-> <<>>]
    ELSE IF e.multer /\ e.code = "LIMIT_FILE_COUNT"
    THEN [status |-> 400, message |-> "Too many files. Maximum is 5 files.",
          data |-> <<>>]
    ELSE IF e.message = "Not an image! Please upload an image."
    THEN [status |-> 400, message |-> e.message, data |-> <<>>]
    ELSE NoResponse

HandleUploadError(r) ==
    /\ pc[r] = "handleUploadError"
    /\ LET out == UploadErrorResponse(err[r]) IN
       IF out # NoResponse
       THEN Respond(r, out.status, out.message, out.data)
       ELSE /\ pc' = [pc EXCEPT ![r] = "errorMiddleware"]
            /\ UNCHANGED resp
    /\ UNCHANGED <<storage, now, started, req, idx, uploaded, err, fsCalls,
                   returned, deleted, raced, missing, logged>>

\* err.message.includes(sub): none of the fixed texts of the errors above
\* has an upper-case "C", so the search is made in the quoted path.
MessageIncludes(e, sub) == Contains(JoinPath(e.path), sub)

\* The application's error middleware: an error whose message includes
\* "CORS" is answered 403 with that message (its text in message, the path
\* it quotes in data), any other with the generic 500.
ErrorResponse(e) ==
    IF MessageIncludes(e, <<"C", "O", "R", "S">>)
    THEN [status |-> 403, message |-> e.message, data |-> e.path]
    ELSE [status |-> 500, message |-> "Something went wrong!", data |-> <<>>]

ErrorMiddleware(r) ==
    /\ pc[r] = "errorMiddleware"
    /\ logged' = [logged EXCEPT ![r] = TRUE]
    /\ LET out == ErrorResponse(err[r]) IN
       Respond(r, out.status, out.message, out.data)
    /\ UNCHANGED <<storage, now, started, req, idx, uploaded, err, fsCalls,
                   returned, deleted, raced, missing>>

\* POST /: the handler after a body multer accepted.
PostHandler(r) ==
    /\ pc[r] = "postHandler"
    /\ Respond(r, 201, "success", uploaded[r])
    /\ returned' = returned \o uploaded[r]
    /\ UNCHANGED <<storage, now, started, req, idx, uploaded, err, fsCalls,
                   deleted, raced, missing,
                   logged>>

\* ------------------------------------------------------------------ delete

\* /^[A-Za-z0-9_.-]+$/
FilenameChars ==
    LowerLetters \cup UpperLetters \cup {DigitChars[i] : i \in 1..10}
        \cup {"_", ".", "-"}

ValidFilename(f) == Len(f) >= 1 /\ \A i \in 1..Len(f) : f[i] \in FilenameChars

\* DELETE /:filename, up to the call of unlink.
DeleteHandler(r) ==
    /\ pc[r] = "deleteHandler"
    /\ IF ~ValidFilename(req[r].filename)
       THEN Respond(r, 400, "Invalid filename", <<>>)
       ELSE /\ pc' = [pc EXCEPT ![r] = "unlink"]
            /\ UNCHANGED resp
    /\ UNCHANGED <<storage, now, started, req, idx, uploaded, err, fsCalls,
                   returned, deleted, raced, missing, logged>>

\* A delete whose catch does not tell ENOENT from other errors.
DeleteResponseNoNotFound(code) ==
    IF code = "ok"
    THEN [status |-> 200, message |-> "File deleted", data |-> <<>>]
    ELSE [status |-> 500, message |-> "Failed to delete media", data |-> <<>>]

\* The response of delete for the outcome of unlink.
DeleteResponse(code) ==
    IF code = "ok"
    THEN [status |-> 200, message |-> "File deleted", data |-> <<>>]
    ELSE IF code = "ENOENT"
    THEN [status |-> 404, message |-> "File not found", data |-> <<>>]
    ELSE [status |-> 500, message |-> "Failed to delete media", data |-> <<>>]

\* DELETE /:filename, unlink and the response.
DeleteUnlink(r) ==
    /\ pc[r] = "unlink"
    /\ LET path == PathJoin(UPLOADS_DIR, req[r].filename) IN
       \E code \in UnlinkResults(storage, path) :
         /\ storage' = AfterUnlink(storage, path)
         /\ fsCalls' = [fsCalls EXCEPT ![r] = @ \cup {<<"unlink", path>>}]
         /\ deleted' = (deleted \/ code = "ok")
         /\ missing' = [missing EXCEPT ![r] = req[r].filename \notin Stored]
         /\ logged' = [logged EXCEPT ![r] = code \notin {"ok", "ENOENT"}]
         /\ LET out == DeleteResponse(code) IN
            Respond(r, out.status, out.message, out.data)
    /\ UNCHANGED <<now, started, req, idx, uploaded, err, returned, raced>>

\* ----------------------------------------------------------- specification

Next ==
    \/ \E r \in Req :
         \/ NewRequest(r)
         \/ Protect(r)
         \/ Authorize(r)
         \/ ListHandler(r)
         \/ MulterPart(r)
         \/ MulterFinish(r)
         \/ RemoveUploaded(r)
         \/ HandleUploadError(r)
         \/ ErrorMiddleware(r)
         \/ PostHandler(r)
         \/ DeleteHandler(r)
         \/ DeleteUnlink(r)

Spec == Init /\ [][Next]_vars


\* ------------------------------------------------------------- properties

Done(r) == pc[r] = "done"

Range(f) == {f[i] : i \in DOMAIN f}

\* The stored files that request slot r wrote.
OwnedFiles(r) == {n \in Stored : storage[n].owner = req[r].id}

\* The request has written a file to the uploads directory.
HasWritten(r) == \E c \in fsCalls[r] : c[1] = "write"

\* Some file of the body declares a content type outside image/.
HasBadType(files) ==
    \E i \in DOMAIN files :
        ~StartsWith(files[i].mimetype, <<"i","m","a","g","e","/">>)
\* Some file of the body is over the 5 MiB limit.
HasOversize(files) == \E i \in DOMAIN files : files[i].size > FileSizeLimit

\* The first part of the body that multer refuses is an oversize file.
OversizeFirst(files) ==
    \E i \in DOMAIN files :
        /\ files[i].size > FileSizeLimit
        /\ PartError(files[i], i) = NoError
        /\ \A j \in 1..(i - 1) :
             /\ PartError(files[j], j) = NoError
             /\ files[j].size <= FileSizeLimit

C2_NonAdminRefused ==
    \A r \in Req :
        (Done(r) /\ req[r].principal # "admin")
        => /\ resp[r].status \in {401, 403}
           /\ fsCalls[r] = {}
           /\ uploaded[r] = <<>>
           /\ idx[r] = 1

\* Refused callers of each of the three operations, with a file stored.
C2_Witness ==
    /\ Stored # {}
    /\ \E r \in Req :
         /\ Done(r) /\ req[r].kind = "upload" /\ req[r].principal = "user"
         /\ resp[r].status = 403
    /\ \E r \in Req :
         /\ Done(r) /\ req[r].kind = "delete" /\ req[r].principal = "none"
         /\ req[r].filename \in Stored
         /\ resp[r].status = 401

\* A filename with a path separator or a ".." segment.
HasTraversal(f) ==
    \/ Positions(f, "/") # {}
    \/ \E i \in DOMAIN Split(f) : Split(f)[i] = <<".", ".">>

\* C3: a delete whose filename has a path separator or a traversal sequence
\* is answered 400 without any filesystem call, and delete calls unlink only
\* on paths of entries inside the uploads directory.
C3_TraversalRejected ==
    \A r \in Req :
        req[r].kind = "delete" =>
            /\ HasTraversal(req[r].filename) =>
                 /\ fsCalls[r] = {}
                 /\ Done(r) /\ req[r].principal = "admin"
                      => resp[r].status = 400
            /\ \A c \in fsCalls[r] : c[1] = "unlink" => InsideUploads(c[2])

\* C4: an upload of more than 5 files is answered 400 with the too-many-files
\* message, and none of its files is stored.
C4_TooManyFiles ==
    \A r \in Req :
        (Done(r) /\ req[r].kind = "upload" /\ req[r].principal = "admin"
            /\ Len(req[r].files) > MaxCount)
        => /\ resp[r].status = 400
           /\ resp[r].message = "Too many files. Maximum is 5 files."
           /\ OwnedFiles(r) = {}

C6_MissingIsNotFound ==
    \A r \in Req :
        (Done(r) /\ req[r].kind = "delete" /\ req[r].principal = "admin"
            /\ ValidFilename(req[r].filename) /\ missing[r])
        => resp[r].status = 404

\* No upload is being served.
NoUploadInFlight ==
    \A q \in Req : req[q].kind = "upload" => pc[q] \in {"idle", "done"}

\* C7: with no delete so far and no upload being served, List returns
\* exactly the filenames the uploads returned, one entry for each.
C7_ListMatchesUploads ==
    [][\A r \in Req :
          (pc[r] = "listHandler" /\ pc'[r] = "done" /\ ~deleted
              /\ NoUploadInFlight)
          => /\ resp'[r].data = Range(returned)
             /\ Cardinality(resp'[r].data) = Len(returned)]_vars

\* C8: of two deletes of the same stored file served at the same time, one
\* is answered 200 and the other 404, and the file is gone.
C8_ConcurrentDeletes ==
    \A r \in Req : \A q \in Req \ {r} :
        (/\ Done(r) /\ Done(q)
         /\ raced[r]
         /\ req[r].principal = "admin" /\ req[q].principal = "admin"
         /\ req[q].kind = "delete"
         /\ req[q].filename = req[r].filename
         /\ req[q].id < req[r].id)
        => /\ {resp[r].status, resp[q].status} = {200, 404}
           /\ resp[r].message # resp[q].message
           /\ req[r].filename \notin Stored

\* Two racing deletes, both answered, the later arrival being the one that
\* removed the file.
C8_Witness ==
    \E r \in Req : \E q \in Req \ {r} :
        /\ Done(r) /\ Done(q)
        /\ raced[r]
        /\ req[r].principal = "admin" /\ req[q].principal = "admin"
        /\ req[q].kind = "delete"
        /\ req[q].filename = req[r].filename
        /\ req[q].id < req[r].id
        /\ resp[r].status = 200
        /\ resp[q].status = 404

\* The files multer has accepted for the requests of the slots.
Accepted == {<<r, i>> : r \in Req, i \in 1..MaxCount}

\* C9: any two accepted files are stored under distinct generated names.
C9_DistinctNames ==
    \A a \in Accepted : \A b \in Accepted \ {a} :
        (a[2] <= Len(uploaded[a[1]]) /\ b[2] <= Len(uploaded[b[1]]))
        => uploaded[a[1]][a[2]] # uploaded[b[1]][b[2]]

\* C10: a file is created only by an upload that ends in 201, removed only
\* by the unlink of a delete request that names it, and never replaced.
C10_Lifecycle ==
    [][/\ \A r \in Req :
            (pc[r] # "done" /\ pc'[r] = "done" /\ resp'[r].status # 201)
            => ~HasWritten(r)
       /\ \A n \in Stored :
            /\ n \notin DOMAIN storage' =>
                 \E r \in Req :
                    /\ pc[r] = "unlink" /\ pc'[r] = "done"
                    /\ req[r].filename = n
            /\ n \in DOMAIN storage' => storage'[n] = storage[n]]_vars

\* An upload failure that handleUploadError has no case for: not a multer
\* size or count error, not the fileFilter's refusal.
OtherFailure(e) ==
    /\ e # NoError
    /\ ~(e.multer /\ e.code \in {"LIMIT_FILE_SIZE", "LIMIT_FILE_COUNT"})
    /\ e.message # "Not an image! Please upload an image."

\* C11: an upload failure other than size-exceeded, count-exceeded or
\* not-an-image reaches the error middleware unchanged, never the success
\* handler, and is answered 500 with the fixed generic message and logged.
C11_OtherFailureIsGeneric ==
    \A r \in Req :
        (req[r].kind = "upload" /\ OtherFailure(err[r]))
        => /\ pc[r] \in {"removeUploaded", "handleUploadError",
                         "errorMiddleware", "done"}
           /\ Done(r) =>
                /\ resp[r].status = 500
                /\ resp[r].message = "Something went wrong!"
                /\ resp[r].data = <<>>
                /\ logged[r]

\* Slot r serves a delete request and takes this step.
DeleteStep(r) ==
    /\ req[r].kind = "delete"
    /\ pc[r] \notin {"idle", "done"}
    /\ pc'[r] # pc[r]

\* C12: the step of a delete request that answers 200 removes exactly the
\* file the request names and leaves every other file as it was; every other
\* step of a delete request, those answering 400, 404 or 500 among them,
\* leaves the storage directory unchanged.
C12_DeleteFrame ==
    [][\A r \in Req :
          DeleteStep(r) =>
            IF pc'[r] = "done" /\ resp'[r].status = 200
            THEN /\ req[r].filename \in Stored
                 /\ DOMAIN storage' = Stored \ {req[r].filename}
                 /\ \A n \in DOMAIN storage' : storage'[n] = storage[n]
            ELSE storage' = storage]_vars

\* A delete answered 200 whose file is gone while a file stored by an
\* earlier request is still there.
C12_Witness ==
    \E r \in Req :
        /\ Done(r) /\ req[r].kind = "delete" /\ resp[r].status = 200
        /\ req[r].filename \notin Stored
        /\ \E n \in Stored : storage[n].owner < req[r].id

====
